---- MODULE Spec2Model ----
(***************************************************************************)
(* Model of delete_backup_files (src/backup_file_remover.py).              *)
(*                                                                         *)
(* Paths, file names, mount options and prompt answers are sequences of    *)
(* one-character strings, so that the string operations of the code        *)
(* (startswith, endswith, splitext, normpath, join, strip, lower, "in")    *)
(* are computed character by character as Python computes them.           *)
(* Path operations follow posixpath (separator "/").                       *)
(***************************************************************************)
EXTENDS Integers, Sequences, FiniteSets, TLC

\* Longest list of partitions psutil.disk_partitions() reports in the model.
MaxParts == 2

----------------------------------------------------------------------------
(* String helpers (Python str methods)                                     *)

Upper == <<"A","B","C","D","E","F","G","H","I","J","K","L","M",
           "N","O","P","Q","R","S","T","U","V","W","X","Y","Z">>
LowerOf == <<"a","b","c","d","e","f","g","h","i","j","k","l","m",
             "n","o","p","q","r","s","t","u","v","w","x","y","z">>

\* str.lower() on one character
LowerChar(c) ==
    IF \E i \in 1..26 : Upper[i] = c
    THEN LowerOf[CHOOSE i \in 1..26 : Upper[i] = c]
    ELSE c

\* str.lower()
lower(s) == [i \in 1..Len(s) |-> LowerChar(s[i])]

\* str.startswith(prefix)
startswith(s, prefix) ==
    /\ Len(prefix) <= Len(s)
    /\ SubSeq(s, 1, Len(prefix)) = prefix

\* str.endswith(suffix)
endswith(s, suffix) ==
    /\ Len(suffix) <= Len(s)
    /\ SubSeq(s, Len(s) - Len(suffix) + 1, Len(s)) = suffix

\* sub in s
contains(s, sub) ==
    \E i \in 1..(Len(s) - Len(sub) + 1) : SubSeq(s, i, i + Len(sub) - 1) = sub

\* The characters str.isspace() holds for.  Those TLA+ cannot write as one
\* character are written by their Python escape.
Whitespace ==
    {" ", "\t", "\n", "\r", "\f", "\\v", "\\x1c", "\\x1d", "\\x1e", "\\x1f",
     "\\x85", "\\xa0", "\\u1680", "\\u2000", "\\u2001", "\\u2002", "\\u2003",
     "\\u2004", "\\u2005", "\\u2006", "\\u2007", "\\u2008", "\\u2009",
     "\\u200a", "\\u2028", "\\u2029", "\\u202f", "\\u205f", "\\u3000"}

\* str.strip(): drop leading and trailing whitespace
strip(s) ==
    LET nonws == {i \in 1..Len(s) : s[i] \notin Whitespace}
    IN  IF nonws = {} THEN <<>>
        ELSE LET lo == CHOOSE i \in nonws : \A j \in nonws : i <= j
                 hi == CHOOSE i \in nonws : \A j \in nonws : i >= j
             IN  SubSeq(s, lo, hi)

\* str.rfind(c) + 1 (0 when c does not occur)
LastIndexOf(s, c) ==
    LET idx == {i \in 1..Len(s) : s[i] = c}
    IN  IF idx = {} THEN 0 ELSE CHOOSE i \in idx : \A j \in idx : i >= j

RECURSIVE SplitAcc(_, _, _, _)
SplitAcc(s, i, cur, acc) ==
    IF i > Len(s) THEN Append(acc, cur)
    ELSE IF s[i] = "/" THEN SplitAcc(s, i + 1, <<>>, Append(acc, cur))
    ELSE SplitAcc(s, i + 1, Append(cur, s[i]), acc)

\* str.split("/")
split(s) == SplitAcc(s, 1, <<>>, <<>>)

RECURSIVE JoinComps(_, _)
\* "/".join(comps)
JoinComps(comps, i) ==
    IF i > Len(comps) THEN <<>>
    ELSE IF i = Len(comps) THEN comps[i]
    ELSE comps[i] \o <<"/">> \o JoinComps(comps, i + 1)

----------------------------------------------------------------------------
(* os.path functions (posixpath)                                           *)

\* os.path.join(a, b)
join(a, b) ==
    IF startswith(b, <<"/">>) THEN b
    ELSE IF a = <<>> \/ endswith(a, <<"/">>) THEN a \o b
    ELSE a \o <<"/">> \o b

RECURSIVE NormComps(_, _, _, _)
NormComps(comps, i, new, initial) ==
    IF i > Len(comps) THEN new
    ELSE LET comp == comps[i] IN
         IF comp = <<>> \/ comp = <<".">>
         THEN NormComps(comps, i + 1, new, initial)
         ELSE IF \/ comp # <<".", ".">>
                 \/ (initial = 0 /\ new = <<>>)
                 \/ (new # <<>> /\ new[Len(new)] = <<".", ".">>)
         THEN NormComps(comps, i + 1, Append(new, comp), initial)
         ELSE IF new # <<>>
         THEN NormComps(comps, i + 1, SubSeq(new, 1, Len(new) - 1), initial)
         ELSE NormComps(comps, i + 1, new, initial)

\* os.path.normpath(path)
normpath(path) ==
    IF path = <<>> THEN <<".">>
    ELSE LET initial == IF ~startswith(path, <<"/">>) THEN 0
                        ELSE IF startswith(path, <<"/", "/">>)
                                /\ ~startswith(path, <<"/", "/", "/">>) THEN 2
                        ELSE 1
             comps   == NormComps(split(path), 1, <<>>, initial)
             body    == JoinComps(comps, 1)
             res     == [i \in 1..initial |-> "/"] \o body
         IN  IF res = <<>> THEN <<".">> ELSE res

\* os.getcwd()
cwd == <<"/">>

\* os.path.abspath(path)
abspath(path) ==
    IF startswith(path, <<"/">>) THEN normpath(path) ELSE normpath(join(cwd, path))

\* os.path.splitext(p): <<root, ext>>; leading dots of the base name are not
\* an extension separator.
splitext(p) ==
    LET sepIndex == LastIndexOf(p, "/")
        dotIndex == LastIndexOf(p, ".")
    IN  IF /\ dotIndex > sepIndex
           /\ \E i \in (sepIndex + 1)..(dotIndex - 1) : p[i] # "."
        THEN <<SubSeq(p, 1, dotIndex - 1), SubSeq(p, dotIndex, Len(p))>>
        ELSE <<p, <<>>>>

----------------------------------------------------------------------------
(* Names used by the code and by the modelled file systems                 *)

AppData    == <<"A","p","p","D","a","t","a">>
RecycleBin == <<"$","R","e","c","y","c","l","e",".","B","i","n">>
Bak == <<".","b","a","k">>
Skb == <<".","s","k","b">>
Dwg == <<".","d","w","g">>
Skp == <<".","s","k","p">>
Txt == <<".","t","x","t">>
RW  == <<"r","w">>

\* Directories of the modelled machine
Root      == <<"/">>
DirU      == <<"/","u">>
DirApp    == join(DirU, AppData)
DirAppSub == join(DirApp, <<"s","u","b">>)
DirApp2   == join(DirU, AppData \o <<"2">>)
DirMnt    == <<"/","m","n","t">>
DirMntD   == join(DirMnt, <<"d">>)
DirMntBin == join(DirMnt, RecycleBin)
DirCd     == <<"/","c","d">>
DirW      == <<"/","w">>

Dirs == {Root, DirU, DirApp, DirAppSub, DirApp2, DirMnt, DirMntD, DirMntBin}

\* Subdirectory names of each directory, in the order scandir lists them
Children(d) ==
    CASE d = Root   -> << <<"u">>, <<"m","n","t">> >>
      [] d = DirU   -> << AppData, AppData \o <<"2">> >>
      [] d = DirApp -> << <<"s","u","b">> >>
      [] d = DirMnt -> << RecycleBin, <<"d">> >>
      [] OTHER      -> << >>

NoFiles == [d \in Dirs |-> << >>]

\* File systems the run may find: for each directory, its file names in
\* listing order.
FsPaired ==
    [NoFiles EXCEPT
        ![DirU]      = << <<"x">> \o Bak, <<"x">> \o Dwg, <<"y">> \o Bak >>,
        ![DirApp]    = << <<"x">> \o Bak, <<"x">> \o Dwg >>,
        ![DirAppSub] = << <<"x">> \o Skb, <<"x">> \o Skp >>,
        ![DirApp2]   = << <<"x">> \o Skb, <<"x">> \o Skp >>,
        ![DirMnt]    = << Bak, Dwg >>,
        ![DirMntD]   = << <<"x">> \o Bak, <<"x">> \o Dwg >>,
        ![DirMntBin] = << <<"x">> \o Bak, <<"x">> \o Dwg >>]

\* no backup file here has the original the code looks for
FsOrphans ==
    [NoFiles EXCEPT
        ![DirU]    = << <<"x">> \o Bak, <<"x">> \o Skp >>,
        ![DirMntD] = << <<"x">> \o Skb, <<"x">> \o Dwg, <<"x">> \o Txt >>,
        ![DirMnt]  = << <<".">> \o Bak, <<".">> \o Dwg >>]

FsMixed ==
    [NoFiles EXCEPT
        ![Root]    = << <<"x">> \o Txt >>,
        ![DirU]    = << Skb, Skp >>,
        ![DirApp2] = << <<"x">> \o Bak, <<"x">> \o Dwg >>,
        ![DirMnt]  = << <<"x">> \o Skb, <<"x">> \o Skp, <<"x">> \o Bak >>]

FsUniverse == {FsPaired, FsOrphans, FsMixed}

\* Partitions psutil may report: mount point and mount options
PartUniverse ==
    { [mountpoint |-> Root,   opts |-> <<"r","w",",","f">>],
      [mountpoint |-> DirU,   opts |-> <<"R","W">>],
      [mountpoint |-> DirMnt, opts |-> <<"r","w",",","f">>],
      [mountpoint |-> DirMnt, opts |-> <<"r","o">>],
      [mountpoint |-> DirCd,  opts |-> <<"r","w",",","f">>] }

None == << >>

\* Environments: os.name, the home directory and the Windows variables.
\* The Windows environment keeps "/" as the separator: what it adds is the
\* extra exclusion paths of lines 134-150.
EnvUniverse ==
    { [nt |-> FALSE, home |-> DirU,   ProgramFiles |-> None,
       ProgramFilesX86 |-> None, WINDIR |-> None],
      [nt |-> FALSE, home |-> DirMnt, ProgramFiles |-> None,
       ProgramFilesX86 |-> None, WINDIR |-> None],
      [nt |-> TRUE,  home |-> DirMnt, ProgramFiles |-> DirU,
       ProgramFilesX86 |-> None, WINDIR |-> DirW] }

\* What the operator may type at the prompt
Responses ==
    { <<"y">>, <<"Y">>, <<" ","y"," ">>, <<"\t","Y","\r">>, <<"y"," ","y">>,
      <<"n">>, <<"y","e","s">>, <<" ">>, << >> }

----------------------------------------------------------------------------
VARIABLES
    partitions,     \* what psutil.disk_partitions() yields
    env,            \* os.name, home, environment variables
    files,          \* directory -> file names
    unreadable,     \* directories the process has no permission on: they
                    \* cannot be listed and nothing below them can be reached
    confirm,        \* the argument of delete_backup_files
    pc,             \* position in delete_backup_files
    part_idx,       \* next partition of the enumeration loop
    search_dirs,
    exclude_dirs,
    scan_idx,       \* index of the drive being walked
    walk_stack,     \* directories os.walk has still to list
    files_to_delete_candidates,
    proceed_with_deletion,
    prompt_outcome, \* "none", "answered", "interrupt" or "eof"
    user_response,  \* the stripped, lowered answer
    del_idx,        \* next candidate of the deletion loop
    deleted_count,
    failed_count,
    trash_log,      \* arguments of the send2trash calls made, in order
    report,         \* the closing message of the run
    scan_done,      \* "Scanning of all drives completed." was printed
    examined,       \* normalized directories whose files were examined
    descended,      \* directories whose subdirectories were handed to the walk
    skipped,        \* normalized directories treated as excluded
    walk_errors     \* directories reported to the onerror callback

vars == <<partitions, env, files, unreadable, confirm, pc, part_idx,
          search_dirs, exclude_dirs, scan_idx, walk_stack,
          files_to_delete_candidates, proceed_with_deletion, prompt_outcome,
          user_response, del_idx, deleted_count, failed_count, trash_log, report,
          scan_done, examined, descended, skipped, walk_errors>>

inputs == <<partitions, env, files, unreadable, confirm>>
history == <<examined, descended, skipped, walk_errors>>
deletion == <<del_idx, deleted_count, failed_count, trash_log>>
prompt == <<proceed_with_deletion, prompt_outcome, user_response>>
scan == <<scan_idx, walk_stack, files_to_delete_candidates>>
walked == <<scan, scan_done>>

SeqsUpTo(S, n) == UNION {[1..k -> S] : k \in 0..n}

\* os.path.dirname of a normalized absolute path
ParentDir(d) ==
    IF LastIndexOf(d, "/") <= 1 THEN Root
    ELSE SubSeq(d, 1, LastIndexOf(d, "/") - 1)

\* a regular file of the file system at the normalized path p
FileAt(p) ==
    \E d \in Dirs : \E i \in 1..Len(files[d]) : join(d, files[d][i]) = p

RECURSIVE Lookup(_, _, _)
\* The path resolution of os.stat: the components are followed one by one
\* from the directory cur.  Every component but the last must name an
\* existing directory, and looking a name up needs access to the directory
\* it is looked up in.  None when the resolution fails.
Lookup(comps, i, cur) ==
    IF i > Len(comps) THEN cur
    ELSE IF cur \notin Dirs THEN None
    ELSE IF comps[i] = << >> THEN Lookup(comps, i + 1, cur)
    ELSE IF cur \in unreadable THEN None
    ELSE IF comps[i] = <<".">> THEN Lookup(comps, i + 1, cur)
    ELSE IF comps[i] = <<".", ".">> THEN Lookup(comps, i + 1, ParentDir(cur))
    ELSE Lookup(comps, i + 1, join(cur, comps[i]))

\* what os.stat(p) finds: the normalized path of the entry, or None
Resolve(p) ==
    IF p = << >> THEN None
    ELSE LET t == Lookup(split(p), 1, IF startswith(p, <<"/">>) THEN Root ELSE cwd)
         IN  IF t = None THEN None
             ELSE IF t \in Dirs THEN t
             ELSE IF FileAt(t) /\ ~endswith(p, <<"/">>) THEN t
             ELSE None

\* os.path.isdir(p)
isdir(p) == Resolve(p) \in Dirs

\* os.path.exists(p)
exists(p) == Resolve(p) # None

Init ==
    /\ partitions \in SeqsUpTo(PartUniverse, MaxParts)
    /\ env \in EnvUniverse
    /\ files \in FsUniverse
    /\ unreadable \in {{}} \cup {{d} : d \in Dirs}
    /\ confirm \in BOOLEAN
    /\ pc = "enum"
    /\ part_idx = 1
    /\ search_dirs = << >>
    /\ exclude_dirs = << >>
    /\ scan_idx = 0
    /\ walk_stack = << >>
    /\ files_to_delete_candidates = << >>
    /\ proceed_with_deletion = FALSE
    /\ prompt_outcome = "none"
    /\ user_response = << >>
    /\ del_idx = 1
    /\ deleted_count = 0
    /\ failed_count = 0
    /\ trash_log = << >>
    /\ report = "none"
    /\ scan_done = FALSE
    /\ examined = {}
    /\ descended = {}
    /\ skipped = {}
    /\ walk_errors = {}

----------------------------------------------------------------------------
(* Volume enumeration, lines 110-127                                       *)

\* Variant of IsScannable that forgets the os.path.isdir test
IsScannable_NoDirCheck(partition) == contains(lower(partition.opts), RW)

\* line 115: a read-write partition whose mount point is a directory
IsScannable(partition) ==
    /\ contains(lower(partition.opts), RW)
    /\ isdir(partition.mountpoint)

\* lines 112-118: one iteration of the loop over the partitions
EnumStep ==
    /\ pc = "enum"
    /\ part_idx <= Len(partitions)
    /\ search_dirs' = IF IsScannable(partitions[part_idx])
                      THEN Append(search_dirs, partitions[part_idx].mountpoint)
                      ELSE search_dirs
    /\ part_idx' = part_idx + 1
    /\ UNCHANGED <<inputs, pc, exclude_dirs, walked, prompt, deletion, report,
                   history>>

\* lines 119-122: an exception raised inside the try block, by the call of
\* disk_partitions (nothing gathered yet) or while a partition is processed
EnumFail ==
    /\ pc = "enum"
    /\ (part_idx = 1 \/ part_idx <= Len(partitions))
    /\ report' = "enum_failed"
    /\ pc' = "done"
    /\ UNCHANGED <<inputs, part_idx, search_dirs, exclude_dirs, walked, prompt,
                   deletion, history>>

\* lines 124-127: nothing to scan
NoDrives ==
    /\ pc = "enum"
    /\ part_idx > Len(partitions)
    /\ search_dirs = << >>
    /\ report' = "no_drives"
    /\ pc' = "done"
    /\ UNCHANGED <<inputs, part_idx, search_dirs, exclude_dirs, walked, prompt,
                   deletion, history>>

----------------------------------------------------------------------------
(* Exclusion set, lines 129-163                                            *)

\* keep of a sequence the elements satisfying isdir
RECURSIVE OnlyDirs(_, _)
OnlyDirs(ps, i) ==
    IF i > Len(ps) THEN << >>
    ELSE IF isdir(ps[i]) THEN <<ps[i]>> \o OnlyDirs(ps, i + 1)
    ELSE OnlyDirs(ps, i + 1)

\* lines 147-150: the recycle bin at the root of every scanned drive
RecycleBins(roots) ==
    OnlyDirs([i \in 1..Len(roots) |-> join(roots[i], RecycleBin)], 1)

\* lines 130-150
exclude_dirs_definitions(e, roots) ==
    << join(e.home, AppData) >>
    \o (IF e.nt
        THEN OnlyDirs(<<e.ProgramFiles, e.ProgramFilesX86, e.WINDIR>>, 1)
             \o RecycleBins(roots)
        ELSE << >>)

\* lines 153-158
BuildExcludeDirs(e, roots) ==
    LET kept == OnlyDirs(exclude_dirs_definitions(e, roots), 1)
    IN  [i \in 1..Len(kept) |-> normpath(abspath(kept[i]))]

\* lines 129-167: the exclusion set is built and the scan starts
BuildExclusions ==
    /\ pc = "enum"
    /\ part_idx > Len(partitions)
    /\ search_dirs # << >>
    /\ exclude_dirs' = BuildExcludeDirs(env, search_dirs)
    /\ scan_idx' = 1
    /\ walk_stack' = << search_dirs[1] >>
    /\ pc' = "scan"
    /\ UNCHANGED <<inputs, scan_done, part_idx, search_dirs, files_to_delete_candidates,
                   prompt, deletion, report, history>>

----------------------------------------------------------------------------
(* Traversal and pairing, lines 168-211                                    *)

\* lines 187-192
is_excluded(current_normalized_dirpath, excl) ==
    /\ excl # << >>
    /\ \E i \in 1..Len(excl) : startswith(current_normalized_dirpath, excl[i])

\* line 198
IsBackupName(filename) == endswith(filename, Bak) \/ endswith(filename, Skb)

\* lines 199-207: the original a backup file is paired with; None when the
\* extension splitext reports is neither .bak nor .skb
original_file(backup_file) ==
    LET base_name == splitext(backup_file)[1]
        ext       == splitext(backup_file)[2]
    IN  IF ext = Bak THEN base_name \o Dwg
        ELSE IF ext = Skb THEN base_name \o Skp
        ELSE None

\* lines 198-211 for one file name: is it appended to the candidates
IsCandidate(dir, filename) ==
    /\ IsBackupName(filename)
    /\ original_file(join(dir, filename)) # None
    /\ exists(original_file(join(dir, filename)))

RECURSIVE PairFiles(_, _, _)
\* lines 197-211: the candidates of one directory, in listing order
PairFiles(dir, filenames, i) ==
    IF i > Len(filenames) THEN << >>
    ELSE IF IsCandidate(dir, filenames[i])
    THEN << join(dir, filenames[i]) >> \o PairFiles(dir, filenames, i + 1)
    ELSE PairFiles(dir, filenames, i + 1)

\* Variant of PrunedDirnames that filters the excluded directory but leaves
\* its subdirectories to the walk
PrunedDirnames_Kept(dirnames) == dirnames

\* line 194: dirnames[:] = []
PrunedDirnames(dirnames) == << >>

\* os.walk, topdown: the subdirectories left in dirnames are walked next,
\* before the directories already pending
PushChildren(top, dirnames, rest) ==
    [i \in 1..Len(dirnames) |-> join(top, dirnames[i])] \o rest

\* os.scandir(top) succeeds: top is a directory that can be read
CanList(top) == isdir(top) /\ Resolve(top) \notin unreadable

\* Variant of WalkError in which a listing error ends the walk of the drive
WalkError_Aborts ==
    /\ pc = "scan"
    /\ walk_stack # << >>
    /\ ~CanList(walk_stack[1])
    /\ walk_errors' = walk_errors \cup {walk_stack[1]}
    /\ walk_stack' = << >>
    /\ UNCHANGED <<inputs, scan_done, pc, part_idx, search_dirs, exclude_dirs,
                   scan_idx, files_to_delete_candidates, prompt, deletion,
                   report, examined, descended, skipped>>

\* os.walk could not list the directory: onerror is called, nothing is yielded
WalkError ==
    /\ pc = "scan"
    /\ walk_stack # << >>
    /\ ~CanList(walk_stack[1])
    /\ walk_errors' = walk_errors \cup {walk_stack[1]}
    /\ walk_stack' = Tail(walk_stack)
    /\ UNCHANGED <<inputs, scan_done, pc, part_idx, search_dirs, exclude_dirs, scan_idx,
                   files_to_delete_candidates, prompt, deletion, report,
                   examined, descended, skipped>>

\* lines 186-195: the directory yielded by the walk is excluded
WalkExcluded ==
    /\ pc = "scan"
    /\ walk_stack # << >>
    /\ CanList(walk_stack[1])
    /\ LET dirpath  == walk_stack[1]
           current  == normpath(abspath(dirpath))
           dirnames == PrunedDirnames(Children(dirpath))
       IN  /\ is_excluded(current, exclude_dirs)
           /\ skipped' = skipped \cup {current}
           /\ descended' = IF dirnames # << >> THEN descended \cup {dirpath}
                           ELSE descended
           /\ walk_stack' = PushChildren(dirpath, dirnames, Tail(walk_stack))
    /\ UNCHANGED <<inputs, scan_done, pc, part_idx, search_dirs, exclude_dirs, scan_idx,
                   files_to_delete_candidates, prompt, deletion, report,
                   examined, walk_errors>>

\* Variant of WalkVisit that moves every backup file to the trash as soon as
\* it is found
WalkVisit_Trashing ==
    /\ pc = "scan"
    /\ walk_stack # << >>
    /\ CanList(walk_stack[1])
    /\ LET dirpath  == walk_stack[1]
           current  == normpath(abspath(dirpath))
           dirnames == Children(dirpath)
       IN  /\ ~is_excluded(current, exclude_dirs)
           /\ examined' = examined \cup {current}
           /\ files_to_delete_candidates' =
                  files_to_delete_candidates
                  \o PairFiles(current, files[dirpath], 1)
           /\ trash_log' = trash_log \o PairFiles(current, files[dirpath], 1)
           /\ descended' = IF dirnames # << >> THEN descended \cup {dirpath}
                           ELSE descended
           /\ walk_stack' = PushChildren(dirpath, dirnames, Tail(walk_stack))
    /\ UNCHANGED <<inputs, scan_done, pc, part_idx, search_dirs, exclude_dirs,
                   scan_idx, prompt, del_idx, deleted_count, failed_count,
                   report, skipped, walk_errors>>

\* lines 186-211: the directory yielded by the walk is examined
WalkVisit ==
    /\ pc = "scan"
    /\ walk_stack # << >>
    /\ CanList(walk_stack[1])
    /\ LET dirpath  == walk_stack[1]
           current  == normpath(abspath(dirpath))
           dirnames == Children(dirpath)
       IN  /\ ~is_excluded(current, exclude_dirs)
           /\ examined' = examined \cup {current}
           /\ files_to_delete_candidates' =
                  files_to_delete_candidates
                  \o PairFiles(current, files[dirpath], 1)
           /\ descended' = IF dirnames # << >> THEN descended \cup {dirpath}
                           ELSE descended
           /\ walk_stack' = PushChildren(dirpath, dirnames, Tail(walk_stack))
    /\ UNCHANGED <<inputs, scan_done, pc, part_idx, search_dirs, exclude_dirs, scan_idx,
                   prompt, deletion, report, skipped, walk_errors>>

\* line 168: the walk of one drive is exhausted, the next drive starts
NextDrive ==
    /\ pc = "scan"
    /\ walk_stack = << >>
    /\ scan_idx < Len(search_dirs)
    /\ scan_idx' = scan_idx + 1
    /\ walk_stack' = << search_dirs[scan_idx + 1] >>
    /\ UNCHANGED <<inputs, scan_done, pc, part_idx, search_dirs, exclude_dirs,
                   files_to_delete_candidates, prompt, deletion, report,
                   history>>

----------------------------------------------------------------------------
(* Confirmation and deletion, lines 213-268                                *)

\* Variant of NothingFound without the early return of lines 217-220
NothingFound_Ignored(candidates) == FALSE

\* line 217
NothingFound(candidates) == candidates = << >>

\* lines 213-220: the scan is over and found nothing
ScanEmpty ==
    /\ pc = "scan"
    /\ walk_stack = << >>
    /\ scan_idx = Len(search_dirs)
    /\ NothingFound(files_to_delete_candidates)
    /\ report' = "no_files"
    /\ pc' = "done"
    /\ scan_done' = TRUE
    /\ UNCHANGED <<inputs, part_idx, search_dirs, exclude_dirs, scan, prompt,
                   deletion, history>>

\* lines 213-227: the scan is over, the list is printed, the prompt is shown
ScanToPrompt ==
    /\ pc = "scan"
    /\ walk_stack = << >>
    /\ scan_idx = Len(search_dirs)
    /\ ~NothingFound(files_to_delete_candidates)
    /\ confirm
    /\ pc' = "prompt"
    /\ scan_done' = TRUE
    /\ UNCHANGED <<inputs, part_idx, search_dirs, exclude_dirs, scan, prompt,
                   deletion, report, history>>

\* lines 213-227, 243-251: confirm=False proceeds without asking
ScanToDelete ==
    /\ pc = "scan"
    /\ walk_stack = << >>
    /\ scan_idx = Len(search_dirs)
    /\ ~NothingFound(files_to_delete_candidates)
    /\ ~confirm
    /\ proceed_with_deletion' = TRUE
    /\ pc' = "delete"
    /\ scan_done' = TRUE
    /\ UNCHANGED <<inputs, part_idx, search_dirs, exclude_dirs, scan,
                   prompt_outcome, user_response, deletion, report, history>>

\* Variant of IsAffirmative that proceeds unless the answer is "n"
IsAffirmative_AnyButNo(response) == response # <<"n">>

\* line 230
IsAffirmative(response) == response = <<"y">>

\* lines 229-234: input() returns
PromptAnswer ==
    /\ pc = "prompt"
    /\ \E typed \in Responses :
         LET r == lower(strip(typed))
         IN  /\ user_response' = r
             /\ prompt_outcome' = "answered"
             /\ proceed_with_deletion' = IsAffirmative(r)
             /\ pc' = IF IsAffirmative(r) THEN "delete" ELSE "done"
             /\ report' = IF IsAffirmative(r) THEN report ELSE "cancelled"
    /\ UNCHANGED <<inputs, part_idx, search_dirs, exclude_dirs, walked,
                   deletion, history>>

\* lines 235-238: KeyboardInterrupt at the prompt
PromptInterrupt ==
    /\ pc = "prompt"
    /\ prompt_outcome' = "interrupt"
    /\ report' = "interrupted"
    /\ pc' = "done"
    /\ UNCHANGED <<inputs, part_idx, search_dirs, exclude_dirs, walked,
                   proceed_with_deletion, user_response, deletion, history>>

\* lines 239-242: EOFError at the prompt
PromptEOF ==
    /\ pc = "prompt"
    /\ prompt_outcome' = "eof"
    /\ report' = "eof"
    /\ pc' = "done"
    /\ UNCHANGED <<inputs, part_idx, search_dirs, exclude_dirs, walked,
                   proceed_with_deletion, user_response, deletion, history>>

\* lines 254-259: send2trash returns
TrashOk ==
    /\ pc = "delete"
    /\ del_idx <= Len(files_to_delete_candidates)
    /\ trash_log' = Append(trash_log, files_to_delete_candidates[del_idx])
    /\ deleted_count' = deleted_count + 1
    /\ del_idx' = del_idx + 1
    /\ UNCHANGED <<inputs, pc, part_idx, search_dirs, exclude_dirs, walked,
                   prompt, failed_count, report, history>>

\* Variant of TrashFail in which the exception ends the deletion loop
TrashFail_Aborts ==
    /\ pc = "delete"
    /\ del_idx <= Len(files_to_delete_candidates)
    /\ trash_log' = Append(trash_log, files_to_delete_candidates[del_idx])
    /\ failed_count' = failed_count + 1
    /\ del_idx' = Len(files_to_delete_candidates) + 1
    /\ UNCHANGED <<inputs, pc, part_idx, search_dirs, exclude_dirs, walked,
                   prompt, deleted_count, report, history>>

\* lines 254-257, 260-264: send2trash raises
TrashFail ==
    /\ pc = "delete"
    /\ del_idx <= Len(files_to_delete_candidates)
    /\ trash_log' = Append(trash_log, files_to_delete_candidates[del_idx])
    /\ failed_count' = failed_count + 1
    /\ del_idx' = del_idx + 1
    /\ UNCHANGED <<inputs, pc, part_idx, search_dirs, exclude_dirs, walked,
                   prompt, deleted_count, report, history>>

\* lines 266-268: the summary with both counts
Summary ==
    /\ pc = "delete"
    /\ del_idx > Len(files_to_delete_candidates)
    /\ report' = "summary"
    /\ pc' = "done"
    /\ UNCHANGED <<inputs, part_idx, search_dirs, exclude_dirs, walked, prompt,
                   deletion, history>>

Next ==
    \/ EnumStep
    \/ EnumFail
    \/ NoDrives
    \/ BuildExclusions
    \/ WalkError
    \/ WalkExcluded
    \/ WalkVisit
    \/ NextDrive
    \/ ScanEmpty
    \/ ScanToPrompt
    \/ ScanToDelete
    \/ PromptAnswer
    \/ PromptInterrupt
    \/ PromptEOF
    \/ TrashOk
    \/ TrashFail
    \/ Summary

Spec == Init /\ [][Next]_vars


----------------------------------------------------------------------------
(* Properties                                                              *)

\* d is e or lies inside the directory e
IsUnder(d, e) ==
    \/ d = e
    \/ startswith(d, IF endswith(e, <<"/">>) THEN e ELSE e \o <<"/">>)

\* d is equal to or nested under some path of the exclusion set
UnderExclusion(d) ==
    \E i \in 1..Len(exclude_dirs) : IsUnder(d, exclude_dirs[i])

\* the directory part of a path
DirOf(p) == ParentDir(p)

InCandidates(p) ==
    \E i \in 1..Len(files_to_delete_candidates) :
        files_to_delete_candidates[i] = p

\* the answer read at the prompt was the explicit affirmative one
AnsweredYes == prompt_outcome = "answered" /\ user_response = <<"y">>

\* C1: in interactive mode, whenever the prompt ended in anything but the
\* affirmative answer (another text, a keyboard interrupt, end of input, or
\* no answer yet), no trash-move has been invoked.
C1_DeclineMeansNoTrash ==
    (confirm /\ ~AnsweredYes) => trash_log = << >>

\* C1 witness: candidates were found, the operator typed "yes" (not the
\* affirmative "y"), the run ended and nothing was moved.
C1_Witness ==
    /\ confirm
    /\ pc = "done"
    /\ prompt_outcome = "answered"
    /\ user_response = <<"y","e","s">>
    /\ files_to_delete_candidates # << >>
    /\ trash_log = << >>

\* C2: no directory equal to or nested under an exclusion path has its files
\* examined or its subdirectories handed to the walk, and no candidate lies in
\* such a directory.
C2_ExcludedSubtreeUntouched ==
    /\ \A d \in examined \cup descended : ~UnderExclusion(d)
    /\ \A i \in 1..Len(files_to_delete_candidates) :
           ~UnderExclusion(DirOf(files_to_delete_candidates[i]))

\* C2 witness: the scan is over, the AppData directory holding x.bak and
\* x.dwg (and a subdirectory holding x.skb and x.skp) was met and skipped, and
\* other candidates were collected.
C2_Witness ==
    /\ scan_done
    /\ files = FsPaired
    /\ DirApp \in skipped
    /\ DirAppSub \notin examined
    /\ ~InCandidates(join(DirApp, <<"x">> \o Bak))
    /\ files_to_delete_candidates # << >>

\* the name without its last four characters
StemOf(filename) == SubSeq(filename, 1, Len(filename) - 4)

\* C3: for every file of an examined directory whose name ends in .bak, the
\* file is a candidate iff the same stem with .dwg exists in that directory;
\* likewise .skb and .skp; for every name, the bare extension included.
C3_PairingIff ==
    \A d \in examined : \A i \in 1..Len(files[d]) :
        LET f == files[d][i] IN
        /\ endswith(f, Bak) =>
              (InCandidates(join(d, f)) <=> FileAt(join(d, StemOf(f) \o Dwg)))
        /\ endswith(f, Skb) =>
              (InCandidates(join(d, f)) <=> FileAt(join(d, StemOf(f) \o Skp)))

\* C4: in non-interactive mode every trash-move attempt is counted as a
\* success or a failure, and when the run that completed the scan ends, the
\* attempts are exactly the entries of the candidate list, in order.
C4_EveryCandidateAttempted ==
    ~confirm =>
        /\ deleted_count + failed_count = Len(trash_log)
        /\ (pc = "done" /\ scan_done) => trash_log = files_to_delete_candidates

\* C4 witness: a non-interactive run ended after at least two attempts, all
\* of which failed: the first failure did not stop the later attempts.
C4_Witness ==
    /\ ~confirm
    /\ report = "summary"
    /\ deleted_count = 0
    /\ failed_count >= 2
    /\ failed_count = Len(files_to_delete_candidates)

\* C5: the candidate list never holds the same path twice.
C5_NoDuplicateCandidates ==
    \A i, j \in 1..Len(files_to_delete_candidates) :
        i # j => files_to_delete_candidates[i] # files_to_delete_candidates[j]

\* C6 as stated: every run that completed the scan ends with the summary of
\* the succeeded and failed counts.
C6_SummaryAlways ==
    (pc = "done" /\ scan_done) => report = "summary"

\* C6 amended: a run that completed the scan ends with the summary of the
\* counts exactly when it proceeded to the deletion (candidates were found
\* and confirm is False or the answer was affirmative); a scan that found no
\* candidate ends with the no-files message and no counts.
C6_SummaryIffProceeded ==
    (pc = "done" /\ scan_done) =>
        /\ report = "summary" <=>
              (/\ files_to_delete_candidates # << >>
               /\ (~confirm \/ AnsweredYes))
        /\ files_to_delete_candidates = << >> => report = "no_files"

\* C6 witness: a scan that examined directories and found no candidate ended
\* without the summary.
C6_Witness ==
    /\ pc = "done"
    /\ scan_done
    /\ examined # {}
    /\ files_to_delete_candidates = << >>
    /\ report = "no_files"

\* d is reached from the scan root r through directories that can be listed
\* and that the scan does not skip
ReachableFrom(r, d) ==
    /\ IsUnder(d, r)
    /\ \A a \in Dirs :
          (IsUnder(a, r) /\ IsUnder(d, a)) =>
              (a \notin unreadable /\ ~is_excluded(a, exclude_dirs))

\* C7: when the scan is over, every file accepted by the pairing step in a
\* directory reached through listable, non-skipped directories from some scan
\* root is in the candidate list, whatever directories failed to list; the
\* listing failures were reported to the error callback.
C7_ReadErrorSkipsOnlyThatDir ==
    scan_done =>
        /\ \A k \in 1..Len(search_dirs) : \A d \in Dirs :
              ReachableFrom(search_dirs[k], d) =>
                  \A i \in 1..Len(files[d]) :
                      IsCandidate(d, files[d][i]) =>
                          InCandidates(join(d, files[d][i]))
        /\ walk_errors \subseteq unreadable

\* C7 witness: the first volume failed to list, the scan went on to
\* completion and collected the candidate of the later volume.
C7_Witness ==
    /\ scan_done
    /\ search_dirs = <<DirU, DirMnt>>
    /\ walk_errors = {DirU}
    /\ InCandidates(join(DirMntD, <<"x">> \o Bak))

\* C8: a trash-move has been invoked only once the scan of all volumes is
\* over and the decision to proceed is taken, and the targets so far are the
\* leading entries of the candidate list.
C8_TrashOnlyAfterScan ==
    trash_log # << >> =>
        /\ scan_done
        /\ pc \in {"delete", "done"}
        /\ walk_stack = << >>
        /\ scan_idx = Len(search_dirs)
        /\ proceed_with_deletion
        /\ Len(trash_log) <= Len(files_to_delete_candidates)
        /\ trash_log = SubSeq(files_to_delete_candidates, 1, Len(trash_log))

\* C8 witness: two volumes were scanned and a trash-move was made.
C8_Witness ==
    /\ Len(search_dirs) = 2
    /\ Cardinality(examined) >= 2
    /\ trash_log # << >>

\* a partition mounted read-write on a directory
ReadWriteDirectory(partition) ==
    /\ contains(lower(partition.opts), RW)
    /\ isdir(partition.mountpoint)

\* C9: once the enumeration has failed, or has ended without any read-write
\* partition mounted on a directory, the run is over or about to end: no
\* directory was walked, the candidate list is empty, the prompt was not
\* shown and no trash-move was invoked.
C9_NoVolumesNoAction ==
    (\/ report = "enum_failed"
     \/ (/\ part_idx > Len(partitions)
         /\ \A i \in 1..Len(partitions) : ~ReadWriteDirectory(partitions[i])))
    => /\ pc \in {"enum", "done"}
       /\ walk_stack = << >>
       /\ examined = {} /\ descended = {} /\ skipped = {} /\ walk_errors = {}
       /\ ~scan_done
       /\ files_to_delete_candidates = << >>
       /\ prompt_outcome = "none"
       /\ trash_log = << >>

\* C9 witness: the enumeration failed after a volume had been gathered, and
\* the run ended.
C9_Witness ==
    /\ report = "enum_failed"
    /\ pc = "done"
    /\ search_dirs # << >>

\* C10: a directory is treated as excluded only when it is equal to or nested
\* under an exclusion path, and every listable directory the walk reached
\* that is not under an exclusion path was examined.
C10_ExcludedIffNested ==
    \A d \in skipped \cup examined :
        /\ d \in skipped <=> UnderExclusion(d)
        /\ ~UnderExclusion(d) => d \in examined

====
